---- MODULE Spec2Model ----
(***************************************************************************)
(* Session bring-up of the Cisco IOS-XR CLI handler.                       *)
(*                                                                         *)
(* CiscoIOSXRCliHandler.on_session_start(session, logger) is seven calls   *)
(* in a row, each of which writes one command to the session and blocks    *)
(* until the expected prompt is read back.  A call either returns (the     *)
(* prompt matched) or raises; the handler has no try/except, so whatever   *)
(* a call raises leaves on_session_start at that call.                     *)
(*                                                                         *)
(* The framework runs on_session_start once for every session it opens;    *)
(* several sessions may be brought up at the same time, one call each.     *)
(***************************************************************************)
EXTENDS Integers, Sequences, FiniteSets, TLC

\* Number of sessions the framework opens (one bring-up per session).
NumSessions == 2

Sessions == 1..NumSessions

\* Variant of Steps: the closing "exit" is missing.
StepsNoExit ==
    << [command |-> "enter-enable",       expected |-> "enable"],
       [command |-> "terminal length 0",  expected |-> "enable"],
       [command |-> "terminal width 300", expected |-> "enable"],
       [command |-> "enter-config",       expected |-> "config"],
       [command |-> "no logging console", expected |-> "config"],
       [command |-> "commit",             expected |-> "config"] >>

\* The calls of on_session_start, in statement order, each with the prompt
\* (EnableCommandMode.PROMPT / ConfigCommandMode.PROMPT) it waits for.
Steps ==
    << [command |-> "enter-enable",       expected |-> "enable"],
       [command |-> "terminal length 0",  expected |-> "enable"],
       [command |-> "terminal width 300", expected |-> "enable"],
       [command |-> "enter-config",       expected |-> "config"],
       [command |-> "no logging console", expected |-> "config"],
       [command |-> "commit",             expected |-> "config"],
       [command |-> "exit",               expected |-> "enable"] >>

\* Step indices count from 0 (step i is Steps[i + 1]).
LastStep == Len(Steps) - 1

\* The mode a freshly opened session is in before any prompt has matched.
InitialMode == "default"

\* What the channel can raise: the read's timeout, and transport failures.
TimeoutError == "SessionTimeout"

ChannelErrors == {"WriteFailure", "Disconnect"}

Reason(e) ==
    IF e = TimeoutError THEN "Timeout"
    ELSE IF e \in ChannelErrors THEN "ChannelError"
    ELSE "Other"

\* stepIndex of "no exception".
NoStep == -1

NoError == [exc |-> "none", stepIndex |-> NoStep]

VARIABLES
    state,        \* state[s]: [name, stepIndex], where on_session_start(s) stands
    blocked,      \* blocked[s]: the call in progress has written its command and is reading
    currentMode,  \* currentMode[s]: mode of the last prompt that matched on session s
    channel,      \* channel[c]: what was written to session c: <<[from, command], ...>>
    responses,    \* responses[s]: what the channel answered bring-up s, in order
    error,        \* error[s]: the exception that left on_session_start(s)
    cancelled,    \* cancelled[s]: the caller has signalled cancel during a read of bring-up s
    rcVrf,        \* resource_config.vrf_management_name of the driver's resource
    pc,           \* pc[t]: where caller t's driver command stands
    call,         \* call[t]: the command caller t invoked, with its arguments
    lock,         \* the driver instance's GlobalLock: its holder, or NoCaller
    flowCalls,    \* flowCalls[t]: the flow methods caller t's command has invoked
    result        \* result[t]: what caller t's command returned or raised

bvars == <<state, blocked, currentMode, channel, responses, error, cancelled>>

dvars == <<rcVrf, pc, call, lock, flowCalls, result>>

vars == <<bvars, dvars>>

NotStarted == [name |-> "NotStarted", stepIndex |-> 0]

Running(i) == [name |-> "Running", stepIndex |-> i]

Completed == [name |-> "Completed", stepIndex |-> Len(Steps)]

Failed(i) == [name |-> "Failed", stepIndex |-> i]

Terminal(s) == state[s].name \in {"Completed", "Failed"}

\* ---- decisions of the handler's code --------------------------------------

\* Every call is made on the session argument of on_session_start.
TargetCached(s) == 1

Target(s) == s

\* The command a call writes is the literal of its statement.
StepCommandShared(s, i) ==
    IF i = 0 /\ \E t \in Sessions \ {s} : state[t].name # "NotStarted"
    THEN ""
    ELSE Steps[i + 1].command

StepCommand(s, i) == Steps[i + 1].command

\* Every call waits for its prompt (hardware_expect, or a mode entry).
AwaitsPromptExceptWidth(i) == i # 1

AwaitsPrompt(i) == TRUE

\* Statements run in order: the call after step i is step i + 1.
NextStepSkipCommit(i) == IF i = 4 THEN 6 ELSE i + 1

NextStep(i) == i + 1

\* An exception is not caught: it leaves on_session_start at the call that raised.
AfterRaiseRetry(s) == Running(state[s].stepIndex)

AfterRaiseSwallow(s) ==
    IF state[s].stepIndex = LastStep THEN Completed
    ELSE Running(state[s].stepIndex + 1)

AfterRaise(s) == Failed(state[s].stepIndex)

\* ... and reaches the caller as it was raised.
PropagateWrapped(e) == "BringUpError"

Propagate(e) == e

\* No except/finally block: nothing is written to the session after a raise.
CleanupCommandsUndo(i) == IF i > 3 THEN <<"exit">> ELSE <<>>

CleanupCommands(i) == <<>>

\* ---- helpers ---------------------------------------------------------------

RECURSIVE Writes(_, _, _)
Writes(log, s, cmds) ==
    IF cmds = <<>> THEN log
    ELSE Writes(Append(log, [from |-> s, command |-> Head(cmds)]), s, Tail(cmds))

RECURSIVE Count(_, _)
Count(seq, x) ==
    IF seq = <<>> THEN 0
    ELSE (IF Head(seq) = x THEN 1 ELSE 0) + Count(Tail(seq), x)

Matches(s) == Count(responses[s], "match")

Commands(c) == [j \in 1..Len(channel[c]) |-> channel[c][j].command]

\* ---- the driver: values and calls -----------------------------------------

\* Number of concurrent callers of one driver instance.
NumCallers == 2

Callers == 1..NumCallers

\* lock value of a free lock.
NoCaller == 0

\* Python values, tagged by their type.
None == <<"NoneType", "">>

Str(x) == <<"str", x>>

\* Python truthiness of the values above.
Falsy(v) == v = None \/ v[2] = ""

\* `v or d`.
OrDefaultNoneOnly(v, d) == IF v = None THEN d ELSE v

OrDefault(v, d) == IF Falsy(v) THEN d ELSE v

\* configuration_type or "running"; restore_method or "override".
ConfigurationTypeDefault == Str("running")

RestoreMethodDefaultAppend == Str("append")

RestoreMethodDefault == Str("override")

\* The commands decorated with @GlobalLock.lock.
LockedCommandsNoRestore == {"get_inventory", "load_firmware"}

LockedCommands == {"get_inventory", "restore", "load_firmware"}

\* What a flow method returns to the driver.
Response == Str("response")

\* What a flow method raises.
FlowError == Str("FlowError")

\* Argument values the callers pass.
Paths == {Str(""), Str("ftp://server/folder")}

OptionalStrings(x) == {None, Str(""), Str(x)}

Artifacts == {Str("artifact-A"), Str("artifact-B")}

SaveCalls ==
    {[cmd |-> "save", args |-> <<p, c, v>>] :
        p \in Paths, c \in OptionalStrings("startup"), v \in OptionalStrings("vrf")}

RestoreCalls ==
    {[cmd |-> "restore", args |-> <<p, c, m, v>>] :
        p \in Paths, c \in OptionalStrings("startup"),
        m \in OptionalStrings("append"), v \in OptionalStrings("vrf")}

CustomCommandCalls ==
    {[cmd |-> n, args |-> <<c>>] :
        n \in {"run_custom_command", "run_custom_config_command"},
        c \in {Str(""), Str("show version")}}

OrchestrationRestoreCalls ==
    {[cmd |-> "orchestration_restore", args |-> <<a, c>>] :
        a \in Artifacts, c \in {None, Str("custom json")}}

LoadFirmwareCalls ==
    {[cmd |-> "load_firmware", args |-> <<p, Str(""), v>>] :
        p \in Paths, v \in OptionalStrings("vrf")}

InventoryCalls == {[cmd |-> "get_inventory", args |-> <<>>]}

AllCalls ==
    SaveCalls \cup RestoreCalls \cup CustomCommandCalls
        \cup OrchestrationRestoreCalls \cup LoadFirmwareCalls \cup InventoryCalls

\* One call of every command, its optional arguments left out.
PlainCalls ==
    { [cmd |-> "get_inventory", args |-> <<>>],
      [cmd |-> "run_custom_command", args |-> <<Str("show version")>>],
      [cmd |-> "run_custom_config_command", args |-> <<Str("show version")>>],
      [cmd |-> "save", args |-> <<Str("ftp://server/folder"), None, None>>],
      [cmd |-> "restore", args |-> <<Str("ftp://server/folder"), None, None, None>>],
      [cmd |-> "orchestration_restore", args |-> <<Str("artifact-A"), None>>],
      [cmd |-> "load_firmware", args |-> <<Str("ftp://server/folder"), Str(""), None>>] }

NoCall == [cmd |-> "none", args |-> <<>>]

NoResult == [kind |-> "none", value |-> None]

\* The dict OrchestrationSaveRestore.parse_orchestration_save_result makes of
\* a saved artifact, passed on as **restore_params.
ParsedArtifact(a) == <<"restore_params", a[2]>>

\* The flow method a command's body invokes, with the arguments it passes.
FlowCallOf(c) ==
    LET a == c.args IN
    CASE c.cmd = "save" ->
            [flow |-> "CiscoIOSXRConfigurationFlow", method |-> "save",
             kwargs |-> << <<"folder_path", a[1]>>,
                           <<"configuration_type", OrDefault(a[2], ConfigurationTypeDefault)>>,
                           <<"vrf_management_name", OrDefault(a[3], rcVrf)>> >>]
      [] c.cmd = "restore" ->
            [flow |-> "CiscoIOSXRConfigurationFlow", method |-> "restore",
             kwargs |-> << <<"path", a[1]>>,
                           <<"restore_method", OrDefault(a[3], RestoreMethodDefault)>>,
                           <<"configuration_type", OrDefault(a[2], ConfigurationTypeDefault)>>,
                           <<"vrf_management_name", OrDefault(a[4], rcVrf)>> >>]
      [] c.cmd \in {"run_custom_command", "run_custom_config_command"} ->
            [flow |-> "CiscoRunCommandFlow", method |-> c.cmd,
             kwargs |-> << <<"custom_command", a[1]>> >>]
      [] c.cmd = "orchestration_restore" ->
            [flow |-> "CiscoIOSXRConfigurationFlow", method |-> "restore",
             kwargs |-> << <<"**", ParsedArtifact(a[1])>> >>]
      [] c.cmd = "load_firmware" ->
            [flow |-> "CiscoIOSXRLoadFirmwareFlow", method |-> "load_firmware",
             kwargs |-> << <<"path", a[1]>>,
                           <<"vrf_management_name", OrDefault(a[3], rcVrf)>> >>]
      [] c.cmd = "get_inventory" ->
            [flow |-> "CiscoSnmpAutoloadFlow", method |-> "discover",
             kwargs |-> << <<"supported_os", Str("IOS[ -]?XR|IOSXR")>>,
                           <<"resource_model", Str("resource_model")>> >>]

\* What the command returns when the flow method returned resp.
ReturnValue(c, resp) ==
    IF c.cmd \in {"get_inventory", "save", "run_custom_command", "run_custom_config_command"}
    THEN resp
    ELSE None

DriverIdle ==
    /\ pc = [t \in Callers |-> "idle"]
    /\ call = [t \in Callers |-> NoCall]
    /\ lock = NoCaller
    /\ flowCalls = [t \in Callers |-> <<>>]
    /\ result = [t \in Callers |-> NoResult]

\* ---- the state machine -----------------------------------------------------

SessionsInit ==
    /\ state = [s \in Sessions |-> NotStarted]
    /\ blocked = [s \in Sessions |-> FALSE]
    /\ currentMode = [s \in Sessions |-> InitialMode]
    /\ channel = [s \in Sessions |-> <<>>]
    /\ responses = [s \in Sessions |-> <<>>]
    /\ error = [s \in Sessions |-> NoError]
    /\ cancelled = [s \in Sessions |-> FALSE]

Init ==
    /\ SessionsInit
    /\ rcVrf = None
    /\ DriverIdle

\* The framework calls on_session_start for a new session.
Start(s) ==
    /\ state[s].name = "NotStarted"
    /\ state' = [state EXCEPT ![s] = Running(0)]
    /\ UNCHANGED <<blocked, currentMode, channel, responses, error, cancelled>>
    /\ UNCHANGED dvars

\* A call raises e: the exception leaves on_session_start.  Its stepIndex is
\* the call it left from (each call is a line of its own, which the
\* exception's traceback names); the handler adds nothing to the exception.
Raise(s, e) ==
    /\ state' = [state EXCEPT ![s] = AfterRaise(s)]
    /\ error' = [error EXCEPT ![s] = [exc |-> Propagate(e), stepIndex |-> state[s].stepIndex]]
    /\ channel' = [channel EXCEPT ![Target(s)] =
                       Writes(@, s, CleanupCommands(state[s].stepIndex))]
    /\ responses' = [responses EXCEPT ![s] = Append(@, e)]
    /\ blocked' = [blocked EXCEPT ![s] = FALSE]
    /\ UNCHANGED <<currentMode, cancelled>>
    /\ UNCHANGED dvars

\* The call of the current step writes its command.
Send(s) ==
    /\ state[s].name = "Running"
    /\ ~blocked[s]
    /\ LET i == state[s].stepIndex IN
        /\ channel' = [channel EXCEPT ![Target(s)] =
                           Append(@, [from |-> s, command |-> StepCommand(s, i)])]
        /\ responses' = [responses EXCEPT ![s] = Append(@, "ok")]
        /\ IF AwaitsPrompt(i)
           THEN /\ blocked' = [blocked EXCEPT ![s] = TRUE]
                /\ UNCHANGED state
           ELSE /\ state' = [state EXCEPT ![s] =
                                 IF i = LastStep THEN Completed ELSE Running(NextStep(i))]
                /\ UNCHANGED blocked
    /\ UNCHANGED <<currentMode, error, cancelled>>
    /\ UNCHANGED dvars

\* The write fails in the transport.
SendFails(s) ==
    /\ state[s].name = "Running"
    /\ ~blocked[s]
    /\ Raise(s, "WriteFailure")

\* The expected prompt is read: the call returns and the next statement runs.
ReadMatch(s) ==
    /\ state[s].name = "Running"
    /\ blocked[s]
    /\ LET i == state[s].stepIndex IN
        /\ currentMode' = [currentMode EXCEPT ![s] = Steps[i + 1].expected]
        /\ state' = [state EXCEPT ![s] =
                         IF i = LastStep THEN Completed ELSE Running(NextStep(i))]
    /\ responses' = [responses EXCEPT ![s] = Append(@, "match")]
    /\ blocked' = [blocked EXCEPT ![s] = FALSE]
    /\ UNCHANGED <<channel, error, cancelled>>
    /\ UNCHANGED dvars

\* The prompt does not come within the read's timeout.
ReadTimeout(s) ==
    /\ state[s].name = "Running"
    /\ blocked[s]
    /\ Raise(s, TimeoutError)

\* The read fails in the transport.
ReadFails(s) ==
    /\ state[s].name = "Running"
    /\ blocked[s]
    /\ Raise(s, "Disconnect")

\* The caller signals cancel while the bring-up is blocked in a read.
\* on_session_start takes (session, logger) only and reads no such signal.
SignalCancel(s) ==
    /\ state[s].name = "Running"
    /\ blocked[s]
    /\ ~cancelled[s]
    /\ cancelled' = [cancelled EXCEPT ![s] = TRUE]
    /\ UNCHANGED <<state, blocked, currentMode, channel, responses, error>>
    /\ UNCHANGED dvars

Next ==
    \E s \in Sessions :
        \/ Start(s)
        \/ Send(s)
        \/ SendFails(s)
        \/ ReadMatch(s)
        \/ ReadTimeout(s)
        \/ ReadFails(s)
        \/ SignalCancel(s)

Spec == Init /\ [][Next]_vars

\* One bring-up's own steps.  on_session_start is straight-line synchronous
\* code: a call that can write does write, and a read that is blocked ends (by
\* a match, a timeout or a transport error).
Progress(s) ==
    \/ Send(s)
    \/ SendFails(s)
    \/ ReadMatch(s)
    \/ ReadTimeout(s)
    \/ ReadFails(s)

\* The bring-ups alone.  The caller's cancel signal is left out: no step of
\* on_session_start reads it, so it neither enables nor disables any of them.
BringUpNext == \E s \in Sessions : Start(s) \/ Progress(s)

FairSpec == Init /\ [][BringUpNext]_vars /\ \A s \in Sessions : WF_vars(Progress(s))

\* ---- the driver's commands -------------------------------------------------

\* The resource's configuration is whatever the context holds.
DriverInit ==
    /\ SessionsInit
    /\ rcVrf \in {None, Str("mgmt")}
    /\ DriverIdle

\* Caller t invokes command c: a locked command first waits for the lock.
Invoke(t, c) ==
    /\ pc[t] = "idle"
    /\ call' = [call EXCEPT ![t] = c]
    /\ pc' = [pc EXCEPT ![t] = IF c.cmd \in LockedCommands THEN "waiting" ELSE "body"]
    /\ UNCHANGED <<rcVrf, lock, flowCalls, result>>
    /\ UNCHANGED bvars

\* GlobalLock.lock's wrapper takes the instance's lock and enters the body.
Acquire(t) ==
    /\ pc[t] = "waiting"
    /\ lock = NoCaller
    /\ lock' = t
    /\ pc' = [pc EXCEPT ![t] = "body"]
    /\ UNCHANGED <<rcVrf, call, flowCalls, result>>
    /\ UNCHANGED bvars

\* The body builds its arguments and invokes the flow method, which returns.
FlowReturns(t) ==
    /\ pc[t] = "body"
    /\ flowCalls' = [flowCalls EXCEPT ![t] = Append(@, FlowCallOf(call[t]))]
    /\ result' = [result EXCEPT ![t] =
                      [kind |-> "returned", value |-> ReturnValue(call[t], Response)]]
    /\ pc' = [pc EXCEPT ![t] = "exiting"]
    /\ UNCHANGED <<rcVrf, call, lock>>
    /\ UNCHANGED bvars

\* The body invokes the flow method, which raises; the body catches nothing.
FlowRaises(t) ==
    /\ pc[t] = "body"
    /\ flowCalls' = [flowCalls EXCEPT ![t] = Append(@, FlowCallOf(call[t]))]
    /\ result' = [result EXCEPT ![t] = [kind |-> "raised", value |-> FlowError]]
    /\ pc' = [pc EXCEPT ![t] = "exiting"]
    /\ UNCHANGED <<rcVrf, call, lock>>
    /\ UNCHANGED bvars

\* The command ends; the wrapper of a locked command gives the lock back,
\* whether the body returned or raised.
Leave(t) ==
    /\ pc[t] = "exiting"
    /\ lock' = IF call[t].cmd \in LockedCommands THEN NoCaller ELSE lock
    /\ pc' = [pc EXCEPT ![t] = "done"]
    /\ UNCHANGED <<rcVrf, call, flowCalls, result>>
    /\ UNCHANGED bvars

\* One caller, every command with every argument.
DriverNext ==
    \/ \E c \in AllCalls : Invoke(1, c)
    \/ Acquire(1)
    \/ FlowReturns(1)
    \/ FlowRaises(1)
    \/ Leave(1)

DriverSpec == DriverInit /\ [][DriverNext]_vars

\* Concurrent callers, one call of every command.
LockNext ==
    \E t \in Callers :
        \/ \E c \in PlainCalls : Invoke(t, c)
        \/ Acquire(t)
        \/ FlowReturns(t)
        \/ FlowRaises(t)
        \/ Leave(t)

LockSpec == DriverInit /\ [][LockNext]_vars

\* ---- properties ------------------------------------------------------------

\* The seven commands of the bring-up as the specification lists them.
SevenCommands ==
    << "enter-enable", "terminal length 0", "terminal width 300", "enter-config",
       "no logging console", "commit", "exit" >>

SevenModes == << "enable", "enable", "enable", "config", "config", "config", "enable" >>

Prefix(seq, n) == SubSeq(seq, 1, n)

Last(seq) == seq[Len(seq)]

Range(seq) == {seq[j] : j \in 1..Len(seq)}

\* The mode in effect after steps 0..k-1 have matched.
ModeAfter(k) == IF k = 0 THEN InitialMode ELSE SevenModes[k]

\* C1: the commands on a session are the step commands in list order, and the
\* command of step i+1 is on the channel only when the prompts of steps 0..i
\* have matched: at any time at most one written command is without its match.
C1_Ordering ==
    \A s \in Sessions :
        /\ Len(channel[s]) <= Matches(s) + 1
        /\ Commands(s) = Prefix(SevenCommands, Len(channel[s]))

\* C1 witness: "exit" has been written after the six prompts before it matched.
C1_Witness ==
    \E s \in Sessions :
        /\ Len(channel[s]) = 7
        /\ Matches(s) = 6
        /\ blocked[s]

HappyResponses ==
    << "ok", "match", "ok", "match", "ok", "match", "ok", "match",
       "ok", "match", "ok", "match", "ok", "match" >>

\* C3: when every write was answered by its prompt, the bring-up is Completed;
\* a Completed bring-up is in enable mode, has written the seven commands once
\* each in list order, and is not inside a call (nothing pending).
C3_HappyPath ==
    \A s \in Sessions :
        (responses[s] = HappyResponses \/ state[s].name = "Completed") =>
            /\ state[s].name = "Completed"
            /\ responses[s] = HappyResponses
            /\ currentMode[s] = "enable"
            /\ Commands(s) = SevenCommands
            /\ ~blocked[s]
            /\ error[s] = NoError

\* C3 witness: a bring-up has completed.
C3_Witness ==
    \E s \in Sessions : state[s].name = "Completed" /\ Len(channel[s]) = 7

\* The response stream in which the read of step index 2 times out.
ThirdStepTimesOut ==
    << "ok", "match", "ok", "match", "ok", TimeoutError >>

\* C4 as claimed: the third step timing out leaves Failed(2, Timeout) with
\* exactly 2 commands written.
C4_Claimed ==
    \A s \in Sessions :
        responses[s] = ThirdStepTimesOut =>
            /\ state[s] = Failed(2)
            /\ Reason(error[s].exc) = "Timeout"
            /\ Len(channel[s]) = 2

\* C4 amended: the third step timing out leaves Failed(2, Timeout) with exactly
\* 3 commands written (steps 0, 1 and 2), 2 of them answered by their prompt.
C4_TimeoutOnThirdStep ==
    \A s \in Sessions :
        responses[s] = ThirdStepTimesOut =>
            /\ state[s] = Failed(2)
            /\ error[s].stepIndex = 2
            /\ Reason(error[s].exc) = "Timeout"
            /\ Commands(s) = Prefix(SevenCommands, 3)
            /\ Matches(s) = 2

\* C4 witness: the read of 'terminal width 300' has timed out.
C4_Witness ==
    \E s \in Sessions :
        /\ responses[s] = ThirdStepTimesOut
        /\ state[s].name = "Failed"

\* C5 as claimed: a bring-up whose caller has signalled cancel while it is
\* blocked in the read of step 1 leaves that read only as Failed(1, Cancelled):
\* it neither goes on to step 2 nor fails for another reason.
C5_Claimed ==
    [][\A s \in Sessions :
          (cancelled[s] /\ state[s] = Running(1) /\ blocked[s]) =>
              \/ state'[s] = state[s] /\ blocked'[s]
              \/ state'[s] = Failed(1) /\ error'[s].exc = "Cancelled"]_vars

Transition(a, b) ==
    \/ b = a
    \/ a = NotStarted /\ b = Running(0)
    \/ a.name = "Running" /\ a.stepIndex < 6 /\ b = Running(a.stepIndex + 1)
    \/ a = Running(6) /\ b = Completed
    \/ a.name = "Running" /\ b = Failed(a.stepIndex)

\* C8: every step of a bring-up is one of the state machine's transitions;
\* Completed and Failed are left by none, and nothing is written or raised in
\* them; the command of step i is written only as the (i+1)-th command, so no
\* step is written twice.
C8_StateMachine ==
    [][\A s \in Sessions :
          /\ Transition(state[s], state'[s])
          /\ Terminal(s) =>
                 /\ state'[s] = state[s]
                 /\ channel'[s] = channel[s]
                 /\ responses'[s] = responses[s]
                 /\ error'[s] = error[s]
          /\ channel'[s] # channel[s] =>
                 /\ state[s].name = "Running"
                 /\ Len(channel[s]) = state[s].stepIndex
                 /\ Len(channel'[s]) = state[s].stepIndex + 1]_vars

\* C8 witness: one bring-up has completed and another has failed.
C8_Witness ==
    \E s, t \in Sessions :
        /\ state[s].name = "Completed"
        /\ state[t].name = "Failed"
        /\ state[t].stepIndex > 0

\* What a bring-up alone does with a response stream.
RECURSIVE Replay(_, _, _, _, _)
Replay(resp, st, cmds, mode, err) ==
    IF resp = <<>> THEN [state |-> st, commands |-> cmds, mode |-> mode, error |-> err]
    ELSE LET r == Head(resp)
             i == st.stepIndex
         IN  IF r = "ok"
             THEN Replay(Tail(resp), st, Append(cmds, SevenCommands[i + 1]), mode, err)
             ELSE IF r = "match"
             THEN Replay(Tail(resp), IF i = 6 THEN Completed ELSE Running(i + 1),
                         cmds, SevenModes[i + 1], err)
             ELSE Replay(Tail(resp), Failed(i), cmds, mode, [exc |-> r, stepIndex |-> i])

C10_ChannelFailure ==
    \A s \in Sessions :
        (Range(responses[s]) \cap ChannelErrors # {}) =>
            LET i == Matches(s) IN
                /\ Last(responses[s]) \in ChannelErrors
                /\ state[s] = Failed(i)
                /\ error[s].exc = Last(responses[s])
                /\ Len(channel[s]) <= i + 1
                /\ Commands(s) = Prefix(SevenCommands, Len(channel[s]))

\* C10 witness: the transport dropped while 'no logging console' was being read.
C10_Witness ==
    \E s \in Sessions :
        /\ state[s] = Failed(4)
        /\ error[s].exc = "Disconnect"
        /\ Len(channel[s]) = 5

\* C15: 'commit' is only ever the sixth command, written after enter-config
\* and 'no logging console' have matched; every bring-up that got 'no logging
\* console' matched writes it (or is about to, or its write failed); 'exit' is
\* only ever the seventh command, written after 'commit' has matched;
\* enter-config is written at most once, and a session is back in enable mode
\* after config mode only with 'commit' written and matched.
C15_CommitOrdering ==
    \A s \in Sessions :
        LET cmds == Commands(s) IN
            /\ \A j \in 1..Len(cmds) :
                /\ cmds[j] = "commit" =>
                       /\ j = 6
                       /\ Matches(s) >= 5
                       /\ cmds[4] = "enter-config"
                       /\ cmds[5] = "no logging console"
                /\ cmds[j] = "exit" =>
                       /\ j = 7
                       /\ Matches(s) >= 6
                       /\ cmds[6] = "commit"
                /\ cmds[j] = "enter-config" => j = 4
            /\ Matches(s) >= 5 =>
                   \/ "commit" \in Range(cmds)
                   \/ state[s] = Running(5) /\ ~blocked[s]
                   \/ state[s] = Failed(5) /\ error[s].exc = "WriteFailure"
            /\ (Matches(s) >= 4 /\ currentMode[s] = "enable") =>
                   /\ Matches(s) = 7
                   /\ "commit" \in Range(cmds)

\* C15 witness: 'commit' has been written in config mode and is being read.
C15_Witness ==
    \E s \in Sessions :
        /\ state[s] = Running(5)
        /\ blocked[s]
        /\ currentMode[s] = "config"
        /\ Last(Commands(s)) = "commit"

\* C17: when every blocked read ends, a started bring-up reaches Completed or
\* Failed, and at no time has it written more than one command per step.
C17_Termination ==
    /\ \A s \in Sessions : (state[s].name = "Running") ~> Terminal(s)
    /\ [](\A s \in Sessions :
            /\ Len(channel[s]) <= 7
            /\ state[s].name \in {"Running", "Failed"} =>
                   Len(channel[s]) <= state[s].stepIndex + 1)

\* C17 witness: every bring-up has ended, one of them by a timeout.
C17_Witness ==
    /\ \A s \in Sessions : Terminal(s)
    /\ \E s \in Sessions : Reason(error[s].exc) = "Timeout"

\* The body of caller t's command has made its flow invocation.
Delegated(t) == pc[t] \in {"exiting", "done"}

\* The value the claim names for an optional argument: the given one when it
\* is non-empty, the default when it is empty or None.
GivenOr(v, d) == IF v = <<"NoneType", "">> \/ v = <<"str", "">> THEN d ELSE v

\* C11: a save invokes the configuration flow's save exactly once, with
\* folder_path as given, configuration_type as given or 'running' when empty
\* or None, vrf_management_name as given or the resource configuration's when
\* empty or None; nothing is invoked before the body has run.
C11_SaveDefaults ==
    \A t \in Callers :
        call[t].cmd = "save" =>
            LET a == call[t].args IN
                IF Delegated(t)
                THEN flowCalls[t] =
                         << [flow |-> "CiscoIOSXRConfigurationFlow", method |-> "save",
                             kwargs |->
                                 << <<"folder_path", a[1]>>,
                                    <<"configuration_type", GivenOr(a[2], <<"str", "running">>)>>,
                                    <<"vrf_management_name", GivenOr(a[3], rcVrf)>> >>] >>
                ELSE flowCalls[t] = <<>>

\* C11 witness: a save called with configuration_type '' and no vrf has ended,
\* on a resource whose configuration names a vrf.
C11_Witness ==
    \E t \in Callers :
        /\ call[t] = [cmd |-> "save", args |-> <<Str("ftp://server/folder"), Str(""), None>>]
        /\ rcVrf = Str("mgmt")
        /\ pc[t] = "done"
        /\ Len(flowCalls[t]) = 1

\* C12: a restore invokes the configuration flow's restore exactly once, with
\* path as given, configuration_type or 'running', restore_method or
\* 'override', vrf_management_name or the resource configuration's (which may
\* be None itself); non-empty arguments are passed as given.
C12_RestoreDefaults ==
    \A t \in Callers :
        call[t].cmd = "restore" =>
            LET a == call[t].args IN
                IF Delegated(t)
                THEN flowCalls[t] =
                         << [flow |-> "CiscoIOSXRConfigurationFlow", method |-> "restore",
                             kwargs |->
                                 << <<"path", a[1]>>,
                                    <<"restore_method", GivenOr(a[3], <<"str", "override">>)>>,
                                    <<"configuration_type", GivenOr(a[2], <<"str", "running">>)>>,
                                    <<"vrf_management_name", GivenOr(a[4], rcVrf)>> >>] >>
                ELSE flowCalls[t] = <<>>

\* C12 witness: a restore with no optional argument, on a resource without a
\* vrf, has passed vrf_management_name None to the flow.
C12_Witness ==
    \E t \in Callers :
        /\ call[t] = [cmd |-> "restore",
                      args |-> <<Str("ftp://server/folder"), None, None, None>>]
        /\ rcVrf = None
        /\ pc[t] = "done"
        /\ flowCalls[t][1].kwargs[4] = <<"vrf_management_name", None>>

\* C13 as claimed: run_custom_command and run_custom_config_command invoke the
\* command flow's method of the same name once, with custom_command a
\* one-element list holding the given string, and return its response.
C13_Claimed ==
    \A t \in Callers :
        (call[t].cmd \in {"run_custom_command", "run_custom_config_command"}
             /\ pc[t] = "done" /\ result[t].kind = "returned") =>
            /\ flowCalls[t] =
                   << [flow |-> "CiscoRunCommandFlow", method |-> call[t].cmd,
                       kwargs |-> << <<"custom_command",
                                       <<"list[str]", call[t].args[1][2]>> >> >>] >>
            /\ result[t].value = Response

\* C14 as claimed: orchestration_restore invokes the configuration flow's
\* orchestration_restore with saved_artifact_info and custom_params as given.
C14_Claimed ==
    \A t \in Callers :
        (call[t].cmd = "orchestration_restore" /\ Delegated(t)) =>
            flowCalls[t] =
                << [flow |-> "CiscoIOSXRConfigurationFlow", method |-> "orchestration_restore",
                    kwargs |-> << <<"saved_artifact_info", call[t].args[1]>>,
                                  <<"custom_params", call[t].args[2]>> >>] >>

\* Caller t is inside the body of one of the three locked commands.
InLockedBody(t) ==
    /\ pc[t] \in {"body", "exiting"}
    /\ call[t].cmd \in {"get_inventory", "restore", "load_firmware"}

\* C16: no two callers are inside bodies of locked commands together; the
\* caller that is inside one holds the lock, and the lock is free whenever no
\* caller is inside one (so it was given back by every locked command that
\* ended, returned or raised).
C16_GlobalLock ==
    /\ \A t, u \in Callers : (t # u /\ InLockedBody(t)) => ~InLockedBody(u)
    /\ \A t \in Callers : InLockedBody(t) => lock = t
    /\ (\A t \in Callers : ~InLockedBody(t)) => lock = NoCaller

\* C16 witness: a restore has raised and ended, another restore is in its
\* body holding the lock, and nobody else is.
C16_Witness ==
    \E t, u \in Callers :
        /\ pc[t] = "done" /\ call[t].cmd = "restore" /\ result[t].kind = "raised"
        /\ pc[u] = "body" /\ call[u].cmd = "restore"
        /\ lock = u

====
